---- MODULE Spec2Model ----
(***************************************************************************)
(* Model of endpoints/context_dev.go: the tokeninfo-API implementation of  *)
(* the endpoints Context (fetchTokeninfo, getScopedTokeninfo and the       *)
(* tokeninfoContext methods).                                              *)
(*                                                                         *)
(* Go strings that the code only compares or copies are TLA+ strings; the  *)
(* scope strings, which the code splits, are sequences of one-character    *)
(* strings.  A nil pointer, a nil error and "no value" are Nil; a non-nil  *)
(* pointer is Ptr(a).                                                      *)
(***************************************************************************)
EXTENDS Integers, Sequences, FiniteSets, TLC

VARIABLES
    pc,        \* pc[k]: where handler k stands: idle, get, decode, validate, done
    call,      \* call[k]: receiver c, method and scope argument of the running call
    sent,      \* sent[k]: the URLs the call has issued a GET for, in order
    resp,      \* resp[k]: the *http.Response Get returned (local resp, line 42)
    deferred,  \* deferred[k]: the deferred calls of the fetchTokeninfo frame
    closes,    \* closes[k]: how often resp.Body.Close has run
    ti,        \* ti[k]: the local pointer ti of fetchTokeninfo (line 49)
    heap,      \* heap[a]: the tokeninfo struct at address a
    fetched,   \* fetched[k]: what fetchTokeninfo returned to getScopedTokeninfo
    scoped,    \* scoped[k]: what getScopedTokeninfo returned
    ret,       \* ret[k]: what the Context method returned
    pctx,      \* pctx[i]: the platform contexts allocated so far
    ctxs,      \* ctxs[i]: the tokeninfoContext structs allocated so far
    nsRet      \* the last Namespace call: receiver, its struct before, results

vars == <<pc, call, sent, resp, deferred, closes, ti, heap, fetched, scoped,
          ret, pctx, ctxs, nsRet>>

callVars == <<pc, call, sent, resp, deferred, closes, ti, heap, fetched,
              scoped, ret>>

ctxVars == <<pctx, ctxs, nsRet>>

-----------------------------------------------------------------------------
(* Bounds *)

NumCalls == 2          \* request handlers that run concurrently (SpecConc)
MaxGranted == 3        \* longest scope string the endpoint reports
MaxRequested == 2      \* longest scope argument
MaxCtx == 3            \* tokeninfoContext structs allocated (SpecCtx)

Calls == 1..NumCalls

-----------------------------------------------------------------------------
(* Values *)

Nil == [nil |-> TRUE]

Ptr(a) == [addr |-> a]

tokeninfoEndpointURL == "https://www.googleapis.com/oauth2/v2/tokeninfo"

StatusOK == 200

ScopeChars == {"a", "b", " "}

RECURSIVE StringsUpTo(_)
StringsUpTo(n) ==
    IF n = 0 THEN {<<>>}
    ELSE LET shorter == StringsUpTo(n - 1)
         IN  shorter \cup {Append(s, ch) : s \in shorter, ch \in ScopeChars}

GrantedScopes == StringsUpTo(MaxGranted)

RequestedScopes == StringsUpTo(MaxRequested)

\* The inbound requests: one without a bearer token, one with.
Requests == {[id |-> 1, bearer |-> ""], [id |-> 2, bearer |-> "ya29.tok"]}

Methods == {"CurrentOAuthClientID", "CurrentOAuthUser"}

\* What the transport can fail with (Get's err).
TransportErrors == {[kind |-> "TransportError"], [kind |-> "Cancelled"]}

\* The JSON documents of the tokeninfo API: all fields, only an error
\* description, or the empty object.
FullObjects(scopes) ==
    {[issued_to |-> "client-1.apps", audience |-> "aud-1.apps",
      user_id |-> "uid-1", scope |-> s, expires_in |-> e, email |-> m,
      verified_email |-> v, access_type |-> "online"] :
        s \in scopes, e \in {-5, 0, 1}, m \in {"", "alice@example.com"},
        v \in BOOLEAN}

ErrorObjects == {[error_description |-> "Invalid Value"], [x \in {} |-> 0]}

Bodies(scopes) ==
    {[syntax |-> "json", obj |-> o] : o \in FullObjects(scopes) \cup ErrorObjects}
        \cup {[syntax |-> "html", obj |-> [x \in {} |-> 0]]}

Responses(scopes) ==
    {[StatusCode |-> st, Body |-> b] : st \in {StatusOK, 401}, b \in Bodies(scopes)}

-----------------------------------------------------------------------------
(* Errors: the constructor names the spec's error kind, the fields keep    *)
(* what the code formats into the message.                                 *)

ErrNoToken == [kind |-> "NoTokenPresent", msg |-> "No token found"]

ErrDecode == [kind |-> "DecodeError"]

ErrRemote(status, desc) ==
    [kind |-> "RemoteRejection", msg |-> "Error fetching tokeninfo (status %d)",
     status |-> status, desc |-> desc]

ErrExpired == [kind |-> "TokenExpired", msg |-> "Token is expired"]

ErrUnverified(email) ==
    [kind |-> "UnverifiedEmail", msg |-> "Unverified email %q", email |-> email]

ErrInvalidEmail == [kind |-> "InvalidEmail", msg |-> "Invalid email address"]

ErrScope(granted, requested) ==
    [kind |-> "ScopeMismatch",
     msg |-> "No scope matches: expected one of %q, got %q",
     granted |-> granted, requested |-> requested]

-----------------------------------------------------------------------------
(* Pure parts of the code *)

\* &tokeninfo{}: every field at its zero value.
ZeroTokeninfo ==
    [IssuedTo |-> "", Audience |-> "", UserID |-> "", Scope |-> <<>>,
     ExpiresIn |-> 0, Email |-> "", VerifiedEmail |-> FALSE, AccessType |-> "",
     ErrorDescription |-> ""]

\* A struct field after decoding: the object's member under the field's json
\* tag when there is one, else what the field held before.
Member(obj, key, old) == IF key \in DOMAIN obj THEN obj[key] ELSE old

\* DecodeInto with the json tag of IssuedTo mistyped as "audience".
DecodeIntoTagTypo(t, obj) ==
    [IssuedTo |-> Member(obj, "audience", t.IssuedTo),
     Audience |-> Member(obj, "audience", t.Audience),
     UserID |-> Member(obj, "user_id", t.UserID),
     Scope |-> Member(obj, "scope", t.Scope),
     ExpiresIn |-> Member(obj, "expires_in", t.ExpiresIn),
     Email |-> Member(obj, "email", t.Email),
     VerifiedEmail |-> Member(obj, "verified_email", t.VerifiedEmail),
     AccessType |-> Member(obj, "access_type", t.AccessType),
     ErrorDescription |-> Member(obj, "error_description", t.ErrorDescription)]

\* json.NewDecoder(resp.Body).Decode(ti) on a struct holding t.
DecodeInto(t, obj) ==
    [IssuedTo |-> Member(obj, "issued_to", t.IssuedTo),
     Audience |-> Member(obj, "audience", t.Audience),
     UserID |-> Member(obj, "user_id", t.UserID),
     Scope |-> Member(obj, "scope", t.Scope),
     ExpiresIn |-> Member(obj, "expires_in", t.ExpiresIn),
     Email |-> Member(obj, "email", t.Email),
     VerifiedEmail |-> Member(obj, "verified_email", t.VerifiedEmail),
     AccessType |-> Member(obj, "access_type", t.AccessType),
     ErrorDescription |-> Member(obj, "error_description", t.ErrorDescription)]

\* Whether Decode returns an error: the body is not a JSON document.
DecodeFails(body) == body.syntax # "json"

\* Validate with the status check moved behind the switch.
ValidateStatusLast(status, a, t) ==
    IF t.ExpiresIn <= 0
        THEN [ti |-> Nil, err |-> ErrExpired]
    ELSE IF ~t.VerifiedEmail
        THEN [ti |-> Nil, err |-> ErrUnverified(t.Email)]
    ELSE IF t.Email = ""
        THEN [ti |-> Nil, err |-> ErrInvalidEmail]
    ELSE IF status # StatusOK
        THEN [ti |-> Nil, err |-> ErrRemote(status, t.ErrorDescription)]
    ELSE [ti |-> Ptr(a), err |-> Nil]

\* Validate with the last two cases of the switch exchanged.
ValidateEmailFirst(status, a, t) ==
    IF status # StatusOK
        THEN [ti |-> Nil, err |-> ErrRemote(status, t.ErrorDescription)]
    ELSE IF t.ExpiresIn <= 0
        THEN [ti |-> Nil, err |-> ErrExpired]
    ELSE IF t.Email = ""
        THEN [ti |-> Nil, err |-> ErrInvalidEmail]
    ELSE IF ~t.VerifiedEmail
        THEN [ti |-> Nil, err |-> ErrUnverified(t.Email)]
    ELSE [ti |-> Ptr(a), err |-> Nil]

\* fetchTokeninfo from the status check on: what it returns for the status
\* and the struct t that ti points to at address a.
Validate(status, a, t) ==
    IF status # StatusOK
        THEN [ti |-> Nil, err |-> ErrRemote(status, t.ErrorDescription)]
    ELSE IF t.ExpiresIn <= 0
        THEN [ti |-> Nil, err |-> ErrExpired]
    ELSE IF ~t.VerifiedEmail
        THEN [ti |-> Nil, err |-> ErrUnverified(t.Email)]
    ELSE IF t.Email = ""
        THEN [ti |-> Nil, err |-> ErrInvalidEmail]
    ELSE [ti |-> Ptr(a), err |-> Nil]

\* strings.Index(s, " "): the first position of a space, 0 when there is none.
IndexSpace(s) ==
    IF \E i \in 1..Len(s) : s[i] = " "
        THEN CHOOSE i \in 1..Len(s) : s[i] = " " /\ \A j \in 1..(i - 1) : s[j] # " "
        ELSE 0

\* strings.Split(s, " ").
RECURSIVE Split(_)
Split(s) ==
    LET m == IndexSpace(s)
    IN  IF m = 0 THEN <<s>>
        ELSE <<SubSeq(s, 1, m - 1)>> \o Split(SubSeq(s, m + 1, Len(s)))

\* ScopeMatches as strings.Contains(granted, scope).
ScopeMatchesContains(granted, scope) ==
    \E i \in 1..(Len(granted) + 1) :
        /\ i + Len(scope) - 1 <= Len(granted)
        /\ SubSeq(granted, i, i + Len(scope) - 1) = scope

\* The loop of getScopedTokeninfo: some piece of the granted scope equals scope.
ScopeMatches(granted, scope) ==
    LET pieces == Split(granted)
    IN  \E i \in 1..Len(pieces) : pieces[i] = scope

\* getToken(r): the bearer token of the request, "" when it carries none.
getToken(r) == r.bearer

\* TokenMissing with the check left out.
TokenMissingNever(token) == FALSE

\* if token == "" of getScopedTokeninfo.
TokenMissing(token) == token = ""

\* getScopedTokeninfo after fetchTokeninfo returned f; t is the struct f.ti
\* points to.
ScopedResult(f, t, scope) ==
    IF f.err # Nil THEN [ti |-> Nil, err |-> f.err]
    ELSE IF ScopeMatches(t.Scope, scope) THEN [ti |-> f.ti, err |-> Nil]
    ELSE [ti |-> Nil, err |-> ErrScope(t.Scope, scope)]

\* ClientIDResult returning the audience.
ClientIDResultAudience(s, t) ==
    IF s.err # Nil THEN [val |-> "", err |-> s.err]
    ELSE [val |-> t.Audience, err |-> Nil]

\* CurrentOAuthClientID after getScopedTokeninfo returned s.
ClientIDResult(s, t) ==
    IF s.err # Nil THEN [val |-> "", err |-> s.err]
    ELSE [val |-> t.IssuedTo, err |-> Nil]

\* CurrentOAuthUser after getScopedTokeninfo returned s.
UserResult(s, t) ==
    IF s.err # Nil THEN [val |-> Nil, err |-> s.err]
    ELSE [val |-> [Email |-> t.Email], err |-> Nil]

MethodResult(method, s, t) ==
    IF method = "CurrentOAuthClientID" THEN ClientIDResult(s, t)
    ELSE UserResult(s, t)

\* url := tokeninfoEndpointURL + "?access_token=" + token
TokeninfoURL(token) == <<tokeninfoEndpointURL, "?access_token=", token>>

\* appengine.NewContext(r): the platform context of request r, allocated as
\* the id-th platform context.
NewContext(r, id) == [id |-> id, kind |-> "request", req |-> r.id]

\* tokeninfoContextFactory(r): the struct wrapping r's platform context and r.
tokeninfoContextFactory(r, id) == [Context |-> NewContext(r, id), h |-> r]

\* (c *tokeninfoContext) HTTPRequest()
HTTPRequest(c) == c.h

-----------------------------------------------------------------------------
(* The handlers.  Handler k serves one inbound request at a time: it calls *)
(* a Context method, which runs getScopedTokeninfo and fetchTokeninfo.     *)
(* The call is cut where it blocks: at Get and at the read of the body.    *)

\* NewTokeninfo as one package-level struct that every call decodes into.
NewTokeninfoShared(k) == 1

\* ti := &tokeninfo{}: the address of the struct the call allocates.
NewTokeninfo(k) == k

\* DeferClose with the defer statement left out.
DeferNothing(stack) == stack

\* defer resp.Body.Close()
DeferClose(stack) == Append(stack, "resp.Body.Close")

\* The deferred calls that run when fetchTokeninfo returns.
RunDeferred(stack) == Cardinality({i \in 1..Len(stack) : stack[i] = "resp.Body.Close"})

\* The struct a returned pointer refers to.
Deref(p, h) == IF p = Nil THEN ZeroTokeninfo ELSE h[p.addr]

\* fetchTokeninfo returns f to getScopedTokeninfo, which returns to the
\* Context method, which returns to the handler; h is the heap at that time.
FetchReturns(k, f, h) ==
    LET s == ScopedResult(f, Deref(f.ti, h), call[k].scope)
    IN  /\ fetched' = [fetched EXCEPT ![k] = f]
        /\ scoped' = [scoped EXCEPT ![k] = s]
        /\ ret' = [ret EXCEPT ![k] = MethodResult(call[k].method, s, Deref(s.ti, h))]
        /\ closes' = [closes EXCEPT ![k] = @ + RunDeferred(deferred[k])]
        /\ deferred' = [deferred EXCEPT ![k] = <<>>]
        /\ pc' = [pc EXCEPT ![k] = "done"]

\* A Context method is called on the context of request r: getScopedTokeninfo
\* up to the Get of fetchTokeninfo.
Invoke(k, scopes) ==
    /\ pc[k] = "idle"
    /\ \E r \in Requests, m \in Methods, sc \in scopes :
        LET c == tokeninfoContextFactory(r, 0)
            token == getToken(HTTPRequest(c))
            s == [ti |-> Nil, err |-> ErrNoToken]
        IN  /\ call' = [call EXCEPT ![k] = [c |-> c, method |-> m, scope |-> sc]]
            /\ IF TokenMissing(token)
                 THEN /\ scoped' = [scoped EXCEPT ![k] = s]
                      /\ ret' = [ret EXCEPT ![k] = MethodResult(m, s, ZeroTokeninfo)]
                      /\ pc' = [pc EXCEPT ![k] = "done"]
                      /\ UNCHANGED sent
                 ELSE /\ sent' = [sent EXCEPT ![k] = Append(@, TokeninfoURL(token))]
                      /\ pc' = [pc EXCEPT ![k] = "get"]
                      /\ UNCHANGED <<scoped, ret>>
    /\ UNCHANGED <<resp, deferred, closes, ti, heap, fetched, ctxVars>>

\* TransportFailure that issues the GET again instead of returning.
TransportRetry(k, e) ==
    /\ sent' = [sent EXCEPT ![k] = Append(@, sent[k][1])]
    /\ UNCHANGED <<pc, call, resp, deferred, closes, ti, heap, fetched, scoped,
                   ret, ctxVars>>

\* Get returned an error: if err != nil { return nil, err }
TransportFailure(k, e) ==
    /\ FetchReturns(k, [ti |-> Nil, err |-> e], heap)
    /\ UNCHANGED <<call, sent, resp, ti, heap, ctxVars>>

\* Get returned a response: the close of its body is deferred.
Received(k, r) ==
    /\ resp' = [resp EXCEPT ![k] = r]
    /\ deferred' = [deferred EXCEPT ![k] = DeferClose(@)]
    /\ pc' = [pc EXCEPT ![k] = "decode"]
    /\ UNCHANGED <<call, sent, closes, ti, heap, fetched, scoped, ret, ctxVars>>

\* newHTTPClient(c).Get(url) returns.
GetReturns(k, responses) ==
    /\ pc[k] = "get"
    /\ \/ \E e \in TransportErrors : TransportFailure(k, e)
       \/ \E r \in responses : Received(k, r)

\* ti := &tokeninfo{}; Decode(ti): the body is read and decoded.
Decode(k) ==
    /\ pc[k] = "decode"
    /\ LET a == NewTokeninfo(k)
           body == resp[k].Body
       IN  /\ ti' = [ti EXCEPT ![k] = Ptr(a)]
           /\ IF DecodeFails(body)
                THEN /\ heap' = [heap EXCEPT ![a] = ZeroTokeninfo]
                     /\ FetchReturns(k, [ti |-> Nil, err |-> ErrDecode], heap')
                ELSE /\ heap' = [heap EXCEPT ![a] = DecodeInto(ZeroTokeninfo, body.obj)]
                     /\ pc' = [pc EXCEPT ![k] = "validate"]
                     /\ UNCHANGED <<deferred, closes, fetched, scoped, ret>>
    /\ UNCHANGED <<call, sent, resp, ctxVars>>

\* The status check and the switch of fetchTokeninfo, then the scope loop of
\* getScopedTokeninfo and the return of the Context method.
Check(k) ==
    /\ pc[k] = "validate"
    /\ FetchReturns(k, Validate(resp[k].StatusCode, ti[k].addr, heap[ti[k].addr]), heap)
    /\ UNCHANGED <<call, sent, resp, ti, heap, ctxVars>>

\* The handler is done with the result; its locals and the struct die.
Return(k) ==
    /\ pc[k] = "done"
    /\ pc' = [pc EXCEPT ![k] = "idle"]
    /\ call' = [call EXCEPT ![k] = Nil]
    /\ sent' = [sent EXCEPT ![k] = <<>>]
    /\ resp' = [resp EXCEPT ![k] = Nil]
    /\ closes' = [closes EXCEPT ![k] = 0]
    /\ ti' = [ti EXCEPT ![k] = Nil]
    /\ heap' = [a \in DOMAIN heap |->
                    IF ti[k] = Ptr(a) /\ \A j \in Calls \ {k} : ti[j] # Ptr(a)
                        THEN Nil ELSE heap[a]]
    /\ fetched' = [fetched EXCEPT ![k] = Nil]
    /\ scoped' = [scoped EXCEPT ![k] = Nil]
    /\ ret' = [ret EXCEPT ![k] = Nil]
    /\ UNCHANGED <<deferred, ctxVars>>

-----------------------------------------------------------------------------
(* The contexts *)

NamespaceNames == {"", "tenant-a"}

\* tokeninfoContextFactory(r) for an inbound request r.
Factory(r) ==
    /\ Len(ctxs) < MaxCtx
    /\ ctxs' = Append(ctxs, tokeninfoContextFactory(r, pctx + 1))
    /\ pctx' = pctx + 1
    /\ UNCHANGED <<nsRet, callVars>>

\* NamespaceDerived that stores nc in the receiver and returns the receiver.
NamespaceInPlace(i, name) ==
    LET nc == [id |-> pctx + 1, kind |-> "namespace", parent |-> Ptr(i), ns |-> name]
    IN  /\ ctxs' = [ctxs EXCEPT ![i] = [Context |-> nc, h |-> ctxs[i].h]]
        /\ pctx' = pctx + 1
        /\ nsRet' = [recv |-> i, name |-> name, before |-> ctxs[i],
                     ctx |-> Ptr(i), err |-> Nil]

\* appengine.Namespace(c, name) succeeded with nc: &tokeninfoContext{nc, c.h}
NamespaceDerived(i, name) ==
    LET nc == [id |-> pctx + 1, kind |-> "namespace", parent |-> Ptr(i), ns |-> name]
    IN  /\ ctxs' = Append(ctxs, [Context |-> nc, h |-> ctxs[i].h])
        /\ pctx' = pctx + 1
        /\ nsRet' = [recv |-> i, name |-> name, before |-> ctxs[i],
                     ctx |-> Ptr(Len(ctxs) + 1), err |-> Nil]

\* appengine.Namespace(c, name) failed: return nil, err
NamespaceFailed(i, name) ==
    /\ nsRet' = [recv |-> i, name |-> name, before |-> ctxs[i], ctx |-> Nil,
                 err |-> [kind |-> "NamespaceError", name |-> name]]
    /\ UNCHANGED <<ctxs, pctx>>

\* (c *tokeninfoContext) Namespace(name) on the struct at address i.
Namespace(i, name) ==
    /\ i \in 1..Len(ctxs)
    /\ Len(ctxs) < MaxCtx
    /\ \/ NamespaceDerived(i, name)
       \/ NamespaceFailed(i, name)
    /\ UNCHANGED callVars

-----------------------------------------------------------------------------
(* Specifications *)

Init ==
    /\ pc = [k \in Calls |-> "idle"]
    /\ call = [k \in Calls |-> Nil]
    /\ sent = [k \in Calls |-> <<>>]
    /\ resp = [k \in Calls |-> Nil]
    /\ deferred = [k \in Calls |-> <<>>]
    /\ closes = [k \in Calls |-> 0]
    /\ ti = [k \in Calls |-> Nil]
    /\ heap = [k \in Calls |-> Nil]
    /\ fetched = [k \in Calls |-> Nil]
    /\ scoped = [k \in Calls |-> Nil]
    /\ ret = [k \in Calls |-> Nil]
    /\ pctx = 0
    /\ ctxs = <<>>
    /\ nsRet = Nil

\* One handler, every scope string and every response within the bounds.
Next ==
    \/ Invoke(1, RequestedScopes)
    \/ GetReturns(1, Responses(GrantedScopes))
    \/ Decode(1)
    \/ Check(1)
    \/ Return(1)

Spec == Init /\ [][Next]_vars

\* The inputs of the interleaved handlers.
ConcScopes == {<<"a">>, <<"b">>}

ConcResponses ==
    {rs \in Responses({<<"a">>, <<"a", " ", "b">>}) :
        \/ /\ rs.StatusCode = StatusOK
           /\ rs.Body.syntax = "json"
           /\ "email" \in DOMAIN rs.Body.obj
           /\ rs.Body.obj.expires_in = 1
           /\ rs.Body.obj.verified_email
           /\ rs.Body.obj.email # ""
        \/ /\ rs.StatusCode # StatusOK
           /\ rs.Body.syntax = "json"
           /\ "error_description" \in DOMAIN rs.Body.obj
        \/ /\ rs.StatusCode = StatusOK
           /\ rs.Body.syntax # "json"}

\* NumCalls handlers, interleaved at every step.
NextConc ==
    \E k \in Calls :
        \/ Invoke(k, ConcScopes)
        \/ GetReturns(k, ConcResponses)
        \/ Decode(k)
        \/ Check(k)
        \/ Return(k)

SpecConc == Init /\ [][NextConc]_vars

\* The contexts of the inbound requests and their namespaced variants.
NextCtx ==
    \/ \E r \in Requests : Factory(r)
    \/ \E i \in 1..MaxCtx, name \in NamespaceNames : Namespace(i, name)

SpecCtx == Init /\ [][NextCtx]_vars

-----------------------------------------------------------------------------
(* Properties *)

Done(k) == pc[k] = "done"

\* The call received a response whose body decoded.
Decoded(k) == resp[k] # Nil /\ resp[k].Body.syntax = "json"

\* The decoded value of a member, the field's zero value when it is absent.
Field(k, key, zero) ==
    IF key \in DOMAIN resp[k].Body.obj THEN resp[k].Body.obj[key] ELSE zero

\* Status 200, a decodable body, expires_in > 0, verified_email, an email.
PassesEveryCheck(k) ==
    /\ Decoded(k)
    /\ resp[k].StatusCode = 200
    /\ Field(k, "expires_in", 0) > 0
    /\ Field(k, "verified_email", FALSE)
    /\ Field(k, "email", "") # ""

\* C1: for every response with status 200 and a decodable body having
\* expires_in > 0, verified_email = true and a non-empty email, fetchTokeninfo
\* returns a nil error and a tokeninfo carrying exactly the decoded values of
\* issued_to, audience, user_id, scope, expires_in, email, verified_email
\* and access_type.
C1_FetchSucceeds ==
    \A k \in Calls :
        (Done(k) /\ PassesEveryCheck(k)) =>
            /\ fetched[k].err = Nil
            /\ fetched[k].ti # Nil
            /\ LET t == heap[fetched[k].ti.addr]
               IN  /\ t.IssuedTo = Field(k, "issued_to", "")
                   /\ t.Audience = Field(k, "audience", "")
                   /\ t.UserID = Field(k, "user_id", "")
                   /\ t.Scope = Field(k, "scope", <<>>)
                   /\ t.ExpiresIn = Field(k, "expires_in", 0)
                   /\ t.Email = Field(k, "email", "")
                   /\ t.VerifiedEmail = Field(k, "verified_email", FALSE)
                   /\ t.AccessType = Field(k, "access_type", "")

C1_Witness ==
    \E k \in Calls :
        /\ Done(k)
        /\ PassesEveryCheck(k)
        /\ Field(k, "issued_to", "") # Field(k, "audience", "")
        /\ Field(k, "scope", <<>>) # <<>>

\* C2 as stated: for every response with a status other than 200,
\* fetchTokeninfo fails with RemoteRejection whatever the body is, a body that
\* is not valid JSON included.
C2_AnyBodyRemoteRejection ==
    \A k \in Calls :
        (Done(k) /\ resp[k] # Nil /\ resp[k].StatusCode # 200) =>
            /\ fetched[k].ti = Nil
            /\ fetched[k].err # Nil
            /\ fetched[k].err.kind = "RemoteRejection"

\* C2 amended: for every response with a status other than 200 whose body
\* decodes, fetchTokeninfo fails with RemoteRejection carrying that status,
\* whatever the decoded fields are; when the body is not valid JSON it fails
\* with the decode error instead.
C2_DecodableBodyRemoteRejection ==
    \A k \in Calls :
        (Done(k) /\ resp[k] # Nil /\ resp[k].StatusCode # 200) =>
            /\ fetched[k].ti = Nil
            /\ fetched[k].err # Nil
            /\ IF Decoded(k)
                 THEN /\ fetched[k].err.kind = "RemoteRejection"
                      /\ fetched[k].err.status = resp[k].StatusCode
                      /\ fetched[k].err.desc = Field(k, "error_description", "")
                 ELSE fetched[k].err.kind = "DecodeError"

C2_Witness ==
    \E k \in Calls :
        /\ Done(k)
        /\ Decoded(k)
        /\ resp[k].StatusCode # 200
        /\ Field(k, "expires_in", 0) > 0
        /\ Field(k, "verified_email", FALSE)
        /\ Field(k, "email", "") # ""
        /\ fetched[k].err.kind = "RemoteRejection"

\* C3: after a successful decode the error of fetchTokeninfo is that of the
\* first failing check in the order status, expires_in <= 0, verified_email
\* false, email empty, for every combination of the four; there is no error
\* when none fails; and every failure returns no tokeninfo.
C3_FirstFailingCheck ==
    \A k \in Calls :
        /\ (Done(k) /\ Decoded(k)) =>
            LET ok == resp[k].StatusCode = 200
                live == Field(k, "expires_in", 0) > 0
                verified == Field(k, "verified_email", FALSE)
                named == Field(k, "email", "") # ""
                e == fetched[k].err
            IN  /\ ~ok => (e # Nil /\ e.kind = "RemoteRejection")
                /\ (ok /\ ~live) => (e # Nil /\ e.kind = "TokenExpired")
                /\ (ok /\ live /\ ~verified) =>
                       (e # Nil /\ e.kind = "UnverifiedEmail"
                               /\ e.email = Field(k, "email", ""))
                /\ (ok /\ live /\ verified /\ ~named) =>
                       (e # Nil /\ e.kind = "InvalidEmail")
                /\ (ok /\ live /\ verified /\ named) => e = Nil
        /\ (fetched[k] # Nil /\ fetched[k].err # Nil) => fetched[k].ti = Nil

C3_Witness ==
    \E k \in Calls :
        /\ Done(k)
        /\ Decoded(k)
        /\ resp[k].StatusCode = 200
        /\ Field(k, "expires_in", 0) = 1
        /\ ~Field(k, "verified_email", FALSE)
        /\ Field(k, "email", "") = ""
        /\ fetched[k].err.kind = "UnverifiedEmail"
        /\ fetched[k].ti = Nil

\* scope is one of the pieces of granted between its ends and its spaces:
\* it holds no space and stands in granted from a start or just after a space
\* up to the end or just before a space.
IsPiece(scope, granted) ==
    /\ \A i \in 1..Len(scope) : scope[i] # " "
    /\ \E i \in 1..(Len(granted) + 1) :
        LET j == i + Len(scope) - 1
        IN  /\ j <= Len(granted)
            /\ SubSeq(granted, i, j) = scope
            /\ i = 1 \/ granted[i - 1] = " "
            /\ j = Len(granted) \/ granted[j + 1] = " "

\* C4: with a token present and fetchTokeninfo succeeding, getScopedTokeninfo
\* returns the fetched tokeninfo exactly when the requested scope equals one
\* of the pieces of the granted scope split at single spaces, and fails with
\* ScopeMismatch (naming both scopes) otherwise.
C4_ExactPieceMatch ==
    \A k \in Calls :
        (Done(k) /\ fetched[k] # Nil /\ fetched[k].err = Nil) =>
            LET granted == Field(k, "scope", <<>>)
            IN  IF IsPiece(call[k].scope, granted)
                  THEN scoped[k].err = Nil /\ scoped[k].ti = fetched[k].ti
                  ELSE /\ scoped[k].ti = Nil
                       /\ scoped[k].err # Nil
                       /\ scoped[k].err.kind = "ScopeMismatch"
                       /\ scoped[k].err.granted = granted
                       /\ scoped[k].err.requested = call[k].scope

C4_Witness ==
    \E k \in Calls :
        /\ Done(k)
        /\ fetched[k] # Nil
        /\ fetched[k].err = Nil
        /\ Field(k, "scope", <<>>) = <<"a", " ", "b">>
        /\ call[k].scope = <<"b">>
        /\ scoped[k].err = Nil

\* C5: a call on a request without a bearer token fails with NoTokenPresent
\* and issues no request to the tokeninfo endpoint at any point, for every
\* scope.
C5_NoTokenNoRequest ==
    \A k \in Calls :
        (call[k] # Nil /\ call[k].c.h.bearer = "") =>
            /\ Done(k)
            /\ sent[k] = <<>>
            /\ resp[k] = Nil
            /\ fetched[k] = Nil
            /\ scoped[k].ti = Nil
            /\ scoped[k].err # Nil
            /\ scoped[k].err.kind = "NoTokenPresent"
            /\ ret[k].err = scoped[k].err

C5_Witness ==
    \E k \in Calls :
        /\ call[k] # Nil
        /\ call[k].c.h.bearer = ""
        /\ call[k].scope # <<>>
        /\ Done(k)

\* C6: CurrentOAuthClientID returns IssuedTo and a nil error, and
\* CurrentOAuthUser a user with the tokeninfo's Email, when getScopedTokeninfo
\* succeeds; when it fails, both return its error unchanged, which is the
\* error of fetchTokeninfo when that failed, with "" and no user.
C6_AccessorResults ==
    \A k \in Calls :
        Done(k) =>
            /\ IF scoped[k].err = Nil
                 THEN /\ ret[k].err = Nil
                      /\ call[k].method = "CurrentOAuthClientID" =>
                             ret[k].val = Field(k, "issued_to", "")
                      /\ call[k].method = "CurrentOAuthUser" =>
                             ret[k].val = [Email |-> Field(k, "email", "")]
                 ELSE /\ ret[k].err = scoped[k].err
                      /\ call[k].method = "CurrentOAuthClientID" => ret[k].val = ""
                      /\ call[k].method = "CurrentOAuthUser" => ret[k].val = Nil
            /\ (fetched[k] # Nil /\ fetched[k].err # Nil) => ret[k].err = fetched[k].err

C6_Witness ==
    \E k \in Calls :
        /\ Done(k)
        /\ scoped[k].err = Nil
        /\ call[k].method = "CurrentOAuthClientID"
        /\ ret[k].val = "client-1.apps"

\* C7: a call of fetchTokeninfo issues exactly one request, for the URL of its
\* token, and none after a transport, decode or validation failure, which is
\* returned to the caller.
C7_OneRequestNoRetry ==
    \A k \in Calls :
        /\ Len(sent[k]) <= 1
        /\ pc[k] \in {"get", "decode", "validate"} => Len(sent[k]) = 1
        /\ (Done(k) /\ call[k].c.h.bearer # "") =>
            /\ sent[k] = <<TokeninfoURL(call[k].c.h.bearer)>>
            /\ fetched[k] # Nil
            /\ fetched[k].err # Nil => ret[k].err = fetched[k].err

C7_Witness ==
    \E k \in Calls :
        /\ Done(k)
        /\ fetched[k] # Nil
        /\ fetched[k].err # Nil
        /\ fetched[k].err.kind = "TransportError"
        /\ Len(sent[k]) = 1

\* C8: once a response was received its body is closed exactly once when the
\* call returns, on success and on every failure, and not before; no close
\* happens when Get failed.
C8_BodyClosedOnce ==
    \A k \in Calls :
        /\ ~Done(k) => closes[k] = 0
        /\ Done(k) => /\ closes[k] = (IF resp[k] # Nil THEN 1 ELSE 0)
                      /\ deferred[k] = <<>>

C8_Witness ==
    \E k \in Calls :
        /\ Done(k)
        /\ resp[k] # Nil
        /\ fetched[k].err # Nil
        /\ fetched[k].err.kind = "DecodeError"
        /\ closes[k] = 1

\* C9: a Namespace call that the platform serves returns a new context whose
\* request is the receiver's and whose platform context is the derived one,
\* not the receiver's; the receiver keeps its platform context and request.
\* A call that the platform fails returns that error and no context.
C9_NamespaceDerivesNewContext ==
    nsRet # Nil =>
        LET orig == ctxs[nsRet.recv]
        IN  /\ orig = nsRet.before
            /\ IF nsRet.err = Nil
                 THEN /\ nsRet.ctx # Nil
                      /\ nsRet.ctx.addr # nsRet.recv
                      /\ LET new == ctxs[nsRet.ctx.addr]
                         IN  /\ HTTPRequest(new) = HTTPRequest(orig)
                             /\ new.Context # orig.Context
                             /\ new.Context.id # orig.Context.id
                             /\ new.Context.kind = "namespace"
                             /\ new.Context.ns = nsRet.name
                             /\ new.Context.parent = Ptr(nsRet.recv)
                 ELSE /\ nsRet.ctx = Nil
                      /\ nsRet.err.kind = "NamespaceError"

C9_Witness ==
    /\ nsRet # Nil
    /\ nsRet.err = Nil
    /\ ctxs[nsRet.recv].Context.kind = "namespace"
    /\ ctxs[nsRet.ctx.addr].h.bearer # ""

\* What a call on context c with the given method and scope returns when it
\* runs alone and the endpoint answers r.
Alone(c, method, scope, r) ==
    LET t == DecodeInto(ZeroTokeninfo, r.Body.obj)
        f == IF DecodeFails(r.Body) THEN [ti |-> Nil, err |-> ErrDecode]
             ELSE Validate(r.StatusCode, 0, t)
    IN  MethodResult(method, ScopedResult(f, t, scope), t)

\* C10: under every interleaving, what a call returns is a function of its
\* own request's token, its own scope and the answer to its own request, so
\* that equal inputs give equal results; and no two running calls hold the
\* same tokeninfo struct.
C10_CallsIndependent ==
    \A k \in Calls :
        /\ Done(k) =>
            IF call[k].c.h.bearer = ""
              THEN ret[k].err = ErrNoToken
            ELSE IF resp[k] = Nil
              THEN ret[k].err \in TransportErrors
            ELSE ret[k] = Alone(call[k].c, call[k].method, call[k].scope, resp[k])
        /\ \A j \in Calls \ {k} :
            /\ ti[k] # Nil => ti[j] # ti[k]
            /\ (Done(j) /\ Done(k) /\ call[j] = call[k] /\ resp[j] = resp[k]
                    /\ resp[k] # Nil) => ret[j] = ret[k]

C10_Witness ==
    \E j, k \in Calls :
        /\ j # k
        /\ Done(j) /\ Done(k)
        /\ resp[j] # Nil /\ resp[k] # Nil
        /\ resp[j] # resp[k]
        /\ ret[j].err = Nil
        /\ ret[k].err # Nil
        /\ ret[k].err.kind = "ScopeMismatch"

====
